---- MODULE Spec2Model ----
(***************************************************************************)
(* Verification model of rdwj/doc-ingest-service.                          *)
(*                                                                         *)
(*   src/src/main.py                  the ingestion service                *)
(*   src/scripts/ingest-from-minio.py the bulk-fetch utility               *)
(*                                                                         *)
(* Text is a sequence of Unicode code points (integers).  Four             *)
(* specifications share the module:                                        *)
(*   Spec       the service: POST /ingest and POST /ingest/batch           *)
(*   SpecClean  clean_text applied to arbitrary short texts                *)
(*   SpecChunk  chunk_text applied to arbitrary short texts                *)
(*   SpecMinio  one run of the bulk-fetch utility                          *)
(***************************************************************************)
EXTENDS Integers, Sequences, FiniteSets, TLC

VARIABLES
    \* ---- the service (Spec) ----
    pc,         \* position of the request being served
    call,       \* arguments and locals of the running ingest_document call
    rows,       \* table document_chunks: the persisted rows
    conns,      \* number of open database connections
    batch,      \* the running ingest_batch: its input, loop index and results
    response,   \* the last response sent back to the client
    ops,        \* number of ingest_document calls started so far
    \* ---- clean_text (SpecClean) ----
    ct,
    \* ---- chunk_text (SpecChunk) ----
    ck,
    \* ---- the bulk-fetch utility (SpecMinio) ----
    mn

vars == <<pc, call, rows, conns, batch, response, ops, ct, ck, mn>>

(***************************************************************************)
(* Bounds of the model.                                                    *)
(***************************************************************************)
MaxCleanLen == 3
MaxChunkLen == 5
MaxChunkSize == 4
MaxOps == 2
MaxBatch == 3
MaxKeys == 3
MaxLimit == 2

(***************************************************************************)
(* clean_text (main.py 43-60)                                              *)
(***************************************************************************)

\* text.replace('\x00', '')
RemoveNull(text) == SelectSeq(text, LAMBDA c : c # 0)

\* the character class [\x01-\x08\x0B\x0C\x0E-\x1F\x7F]
ControlClass == (1..8) \cup {11, 12} \cup (14..31) \cup {127}

\* a mutant of RemoveControl: \x7F left out of the character class
RemoveControlNoDel(text) == SelectSeq(text, LAMBDA c : c \notin (ControlClass \ {127}))

\* re.sub(r'[\x01-\x08\x0B\x0C\x0E-\x1F\x7F]', '', text)
RemoveControl(text) == SelectSeq(text, LAMBDA c : c \notin ControlClass)

\* UTF-8 bytes of one code point; a lone surrogate cannot be encoded and
\* errors='ignore' drops it.
Utf8Bytes(c) ==
    IF c < 128 THEN <<c>>
    ELSE IF c < 2048 THEN <<192 + (c \div 64), 128 + (c % 64)>>
    ELSE IF c \in 55296..57343 THEN <<>>
    ELSE IF c < 65536
        THEN <<224 + (c \div 4096), 128 + ((c \div 64) % 64), 128 + (c % 64)>>
    ELSE <<240 + (c \div 262144), 128 + ((c \div 4096) % 64),
           128 + ((c \div 64) % 64), 128 + (c % 64)>>

\* text.encode('utf-8', errors='ignore')
RECURSIVE Utf8Encode(_)
Utf8Encode(text) ==
    IF text = <<>> THEN <<>>
    ELSE Utf8Bytes(Head(text)) \o Utf8Encode(Tail(text))

\* bytes.decode('utf-8') of well-formed bytes
RECURSIVE Utf8Decode(_)
Utf8Decode(bytes) ==
    IF bytes = <<>> THEN <<>>
    ELSE LET b == bytes[1] IN
        IF b < 128 THEN <<b>> \o Utf8Decode(SubSeq(bytes, 2, Len(bytes)))
        ELSE IF b < 224
            THEN <<(b - 192) * 64 + (bytes[2] - 128)>>
                 \o Utf8Decode(SubSeq(bytes, 3, Len(bytes)))
        ELSE IF b < 240
            THEN <<(b - 224) * 4096 + (bytes[2] - 128) * 64 + (bytes[3] - 128)>>
                 \o Utf8Decode(SubSeq(bytes, 4, Len(bytes)))
        ELSE <<(b - 240) * 262144 + (bytes[2] - 128) * 4096
               + (bytes[3] - 128) * 64 + (bytes[4] - 128)>>
             \o Utf8Decode(SubSeq(bytes, 5, Len(bytes)))

clean_text(text) == Utf8Decode(Utf8Encode(RemoveControl(RemoveNull(text))))

(***************************************************************************)
(* chunk_text (main.py 63-77): RecursiveCharacterTextSplitter with the     *)
(* arguments the service passes (chunk_size, chunk_overlap, len, literal   *)
(* separators) and the splitter's defaults for the rest: separators        *)
(* "\n\n", "\n", " ", "", separators kept at the start of the following    *)
(* piece, whitespace stripped from every merged chunk.                     *)
(***************************************************************************)

\* the default separator list: "\n\n", "\n", " ", ""
Separators == << <<10, 10>>, <<10>>, <<32>>, <<>> >>

\* the characters str.strip() removes
Whitespace ==
    (9..13) \cup (28..32) \cup {133, 160, 5760} \cup (8192..8202)
    \cup {8232, 8233, 8239, 8287, 12288}

RECURSIVE LStrip(_)
LStrip(s) ==
    IF s # <<>> /\ Head(s) \in Whitespace THEN LStrip(Tail(s)) ELSE s

RECURSIVE RStrip(_)
RStrip(s) ==
    IF s # <<>> /\ s[Len(s)] \in Whitespace
    THEN RStrip(SubSeq(s, 1, Len(s) - 1)) ELSE s

\* str.strip()
Strip(s) == RStrip(LStrip(s))

\* separator.join(docs)
RECURSIVE Join(_, _)
Join(docs, separator) ==
    IF docs = <<>> THEN <<>>
    ELSE IF Len(docs) = 1 THEN docs[1]
    ELSE docs[1] \o separator \o Join(Tail(docs), separator)

\* _join_docs: the joined, stripped text, as a list of zero or one chunk
\* (None when the text is empty)
JoinDocs(docs, separator) ==
    LET text == Strip(Join(docs, separator))
    IN IF text = <<>> THEN <<>> ELSE <<text>>

\* positions at which the literal separator occurs in text
Occurrences(text, sep) ==
    {i \in 1..(Len(text) - Len(sep) + 1) : SubSeq(text, i, i + Len(sep) - 1) = sep}

Min(S) == CHOOSE x \in S : \A y \in S : x <= y

\* re.split(f"({separator})", text) for a non-empty literal separator, the
\* separators themselves left out: the pieces between the leftmost
\* non-overlapping occurrences
RECURSIVE ReSplit(_, _)
ReSplit(text, sep) ==
    IF Occurrences(text, sep) = {} THEN <<text>>
    ELSE LET i == Min(Occurrences(text, sep))
         IN <<SubSeq(text, 1, i - 1)>>
            \o ReSplit(SubSeq(text, i + Len(sep), Len(text)), sep)

\* _split_text_with_regex with keep_separator: each separator is put in
\* front of the piece that follows it; list(text) for the empty separator;
\* empty pieces are dropped
SplitWithSeparator(text, sep) ==
    LET pieces == ReSplit(text, sep)
        splits ==
            IF sep = <<>>
            THEN [i \in 1..Len(text) |-> <<text[i]>>]
            ELSE [i \in 1..Len(pieces) |->
                    IF i = 1 THEN pieces[1] ELSE sep \o pieces[i]]
    IN SelectSeq(splits, LAMBDA s : s # <<>>)

\* what a piece adds to the running total: its length plus a separator
\* when it is not the first of current_doc
SepLen(current_doc, separator, least) ==
    IF Len(current_doc) > least THEN Len(separator) ELSE 0

\* the while loop of _merge_splits: drop pieces from the front of
\* current_doc until the rest fits the overlap and leaves room for d
RECURSIVE PopFront(_, _, _, _, _, _)
PopFront(current_doc, total, dlen, separator, size, overlap) ==
    IF total > overlap
       \/ (total + dlen + SepLen(current_doc, separator, 0) > size /\ total > 0)
    THEN PopFront(Tail(current_doc),
                  total - (Len(Head(current_doc))
                           + SepLen(current_doc, separator, 1)),
                  dlen, separator, size, overlap)
    ELSE [current_doc |-> current_doc, total |-> total]

\* the for loop of _merge_splits from piece k on
RECURSIVE MergeLoop(_, _, _, _, _, _, _, _)
MergeLoop(splits, k, docs, current_doc, total, separator, size, overlap) ==
    IF k > Len(splits) THEN docs \o JoinDocs(current_doc, separator)
    ELSE LET d == splits[k]
             over == total + Len(d) + SepLen(current_doc, separator, 0) > size
             closing == over /\ Len(current_doc) > 0
             docs2 == IF closing THEN docs \o JoinDocs(current_doc, separator)
                      ELSE docs
             kept == IF closing
                     THEN PopFront(current_doc, total, Len(d), separator,
                                   size, overlap)
                     ELSE [current_doc |-> current_doc, total |-> total]
             doc3 == Append(kept.current_doc, d)
         IN MergeLoop(splits, k + 1, docs2, doc3,
                      kept.total + Len(d) + SepLen(doc3, separator, 1),
                      separator, size, overlap)

\* _merge_splits
MergeSplits(splits, separator, size, overlap) ==
    MergeLoop(splits, 1, <<>>, <<>>, 0, separator, size, overlap)

\* the separator _split_text picks: the first of the list that is empty or
\* occurs in the text (0: none, the last one is used)
PickSeparator(text, separators) ==
    LET hits == {i \in 1..Len(separators) :
                    separators[i] = <<>> \/ Occurrences(text, separators[i]) # {}}
    IN IF hits = {} THEN 0 ELSE Min(hits)

\* _split_text
RECURSIVE SplitText(_, _, _, _)
RECURSIVE SplitLoop(_, _, _, _, _, _, _)
SplitLoop(splits, k, good, final, new_separators, size, overlap) ==
    IF k > Len(splits)
    THEN final \o (IF good # <<>> THEN MergeSplits(good, <<>>, size, overlap)
                   ELSE <<>>)
    ELSE LET s == splits[k] IN
        IF Len(s) < size
        THEN SplitLoop(splits, k + 1, Append(good, s), final,
                       new_separators, size, overlap)
        ELSE LET merged == IF good # <<>>
                           THEN MergeSplits(good, <<>>, size, overlap)
                           ELSE <<>>
                 deeper == IF new_separators = <<>> THEN <<s>>
                           ELSE SplitText(s, new_separators, size, overlap)
             IN SplitLoop(splits, k + 1, <<>>, final \o merged \o deeper,
                          new_separators, size, overlap)

SplitText(text, separators, size, overlap) ==
    LET i == PickSeparator(text, separators)
        separator == IF i = 0 THEN separators[Len(separators)]
                     ELSE separators[i]
        new_separators ==
            IF i = 0 \/ separators[i] = <<>> THEN <<>>
            ELSE SubSeq(separators, i + 1, Len(separators))
    IN SplitLoop(SplitWithSeparator(text, separator), 1, <<>>, <<>>,
                 new_separators, size, overlap)

\* splitter.split_text(text)
split_text(text, size, overlap) == SplitText(text, Separators, size, overlap)

\* a mutant of chunk_text: the chunks numbered from 1
chunk_text_from_one(text, size, overlap) ==
    LET chunks == split_text(text, size, overlap)
    IN [i \in 1..Len(chunks) |-> [text |-> chunks[i], chunk_num |-> i]]

\* chunk_text: the chunks, each with its index
chunk_text(text, size, overlap) ==
    LET chunks == split_text(text, size, overlap)
    IN [i \in 1..Len(chunks) |-> [text |-> chunks[i], chunk_num |-> i - 1]]


(***************************************************************************)
(* Values of the model.  A Python str is a sequence of code points; a      *)
(* parameter of ingest_document is a tagged record:                        *)
(*   [tag |-> "none"]                      None                            *)
(*   [tag |-> "str", s |-> ...]            a str                           *)
(*   [tag |-> "upload", filename, content] an UploadFile                   *)
(*   [tag |-> "fieldinfo"]                 the File(None) / Form(None)     *)
(*                                         object that is the parameter's  *)
(*                                         default when the function is    *)
(*                                         called directly                 *)
(***************************************************************************)
NoneVal == [tag |-> "none"]
Str(s) == [tag |-> "str", s |-> s]
Upload(filename, content) ==
    [tag |-> "upload", filename |-> filename, content |-> content]
FieldInfo == [tag |-> "fieldinfo"]

\* Python truthiness: None and "" are false, every other object is true
Truthy(v) ==
    CASE v.tag = "none" -> FALSE
      [] v.tag = "str" -> v.s # <<>>
      [] OTHER -> TRUE

\* "direct_input"
DirectInput == <<100, 105, 114, 101, 99, 116, 95, 105, 110, 112, 117, 116>>

\* the suffixes of file.filename.endswith(('.md', '.txt', '.html'))
SupportedSuffixes ==
    { <<46, 109, 100>>, <<46, 116, 120, 116>>, <<46, 104, 116, 109, 108>> }

EndsWith(s, suffix) ==
    Len(s) >= Len(suffix)
    /\ SubSeq(s, Len(s) - Len(suffix) + 1, Len(s)) = suffix

\* a mutant of SupportedFile: the extension check forgotten
SupportedFileAny(filename) == TRUE

SupportedFile(filename) == \E suffix \in SupportedSuffixes : EndsWith(filename, suffix)

\* bytes.decode('utf-8', errors='replace') for contents made of ASCII bytes,
\* two-byte sequences and bytes that start no sequence (each replaced by
\* U+FFFD)
RECURSIVE DecodeReplace(_)
DecodeReplace(bytes) ==
    IF bytes = <<>> THEN <<>>
    ELSE LET b == bytes[1] IN
        IF b < 128 THEN <<b>> \o DecodeReplace(Tail(bytes))
        ELSE IF b \in 194..223 /\ Len(bytes) >= 2 /\ bytes[2] \in 128..191
            THEN <<(b - 192) * 64 + (bytes[2] - 128)>>
                 \o DecodeReplace(SubSeq(bytes, 3, Len(bytes)))
        ELSE <<65533>> \o DecodeReplace(Tail(bytes))

(***************************************************************************)
(* The environment of the service: the configuration and the filesystem.   *)
(***************************************************************************)
\* CHUNK_SIZE and CHUNK_OVERLAP, read from the environment
ChunkSize == 3
ChunkOverlap == 1

\* the bytes of a document: "ab cd"
DocBytes == <<97, 98, 32, 99, 100>>
\* a text with a null, a control character and a lone surrogate: "a\0b\x01 c"
DirtyText == <<97, 0, 98, 1, 32, 99, 55296>>

PathDoc == <<47, 100>>          \* "/d": a text file
PathEmpty == <<47, 101>>        \* "/e": an empty file
PathMissing == <<47, 120>>      \* "/x": no such path
PathDir == <<47>>               \* "/":  a directory

Paths == {PathDoc, PathEmpty, PathMissing, PathDir}

\* Path(p).exists()
PathExists(p) == p \in {PathDoc, PathEmpty, PathDir}
\* whether Path(p).read_text() returns (it raises on a directory)
PathReadable(p) == p \in {PathDoc, PathEmpty}
\* the bytes read_text decodes
PathBytes(p) == IF p = PathDoc THEN DocBytes ELSE <<>>

NameMd == <<97, 46, 109, 100>>              \* "a.md"
NameTxt == <<97, 46, 116, 120, 116>>        \* "a.txt"
NameHtml == <<97, 46, 104, 116, 109, 108>>  \* "a.html"
NamePdf == <<97, 46, 112, 100, 102>>        \* "a.pdf"
NameNoDot == <<109, 100>>                   \* "md"

\* what a client can send in the three form fields of POST /ingest
FileInputs ==
    {NoneVal, Upload(NameMd, <<>>), Upload(NameTxt, DocBytes),
     Upload(NameHtml, <<98, 255>>), Upload(NamePdf, DocBytes),
     Upload(NameNoDot, DocBytes)}
UriInputs == {NoneVal} \cup {Str(p) : p \in Paths}
TextInputs == {NoneVal, Str(<<>>), Str(DirtyText)}

(***************************************************************************)
(* ingest_document, lines 162-203: from the arguments to the chunks, or    *)
(* to the exception raised before any connection is opened.                *)
(***************************************************************************)
Raise(exc, status) == [tag |-> "raise", exc |-> exc, status |-> status]
Ready(uri, text) ==
    [tag |-> "ready", uri |-> uri, text |-> text,
     chunks |-> chunk_text(text, ChunkSize, ChunkOverlap)]

Prepare(file, document_uri, text_content) ==
    IF ~(Truthy(file) \/ Truthy(document_uri) \/ Truthy(text_content))
    THEN Raise("HTTPException", 400)
    ELSE IF Truthy(text_content)
    THEN \* clean_text(text_content): str.replace on an object that is no str
         IF text_content.tag # "str" THEN Raise("AttributeError", 500)
         ELSE Ready(IF Truthy(document_uri) THEN document_uri.s ELSE DirectInput,
                    clean_text(clean_text(text_content.s)))
    ELSE IF Truthy(file)
    THEN \* await file.read()
         IF file.tag # "upload" THEN Raise("AttributeError", 500)
         ELSE IF SupportedFile(file.filename)
         THEN Ready(file.filename, clean_text(DecodeReplace(file.content)))
         ELSE Raise("HTTPException", 400)
    ELSE IF ~PathExists(document_uri.s) THEN Raise("HTTPException", 404)
    ELSE IF ~PathReadable(document_uri.s) THEN Raise("IsADirectoryError", 500)
    ELSE Ready(document_uri.s, clean_text(DecodeReplace(PathBytes(document_uri.s))))


(***************************************************************************)
(* The service: state                                                      *)
(***************************************************************************)
\* no ingest_document call yet
NoCall ==
    [caller |-> "none", id |-> <<0, 0>>,
     file |-> NoneVal, document_uri |-> NoneVal, text_content |-> NoneVal,
     uri |-> <<>>, text |-> <<>>, chunks |-> <<>>,
     i |-> 1, total_inserted |-> 0,
     opened |-> 0, attempted |-> 0, failed |-> 0]

\* the frame of a call that starts
NewCall(caller, id, file, document_uri, text_content) ==
    [NoCall EXCEPT !.caller = caller, !.id = id, !.file = file,
                   !.document_uri = document_uri, !.text_content = text_content]

NoBatch == [uris |-> <<>>, i |-> 1, results |-> <<>>, storeFailures |-> 0]
NoResponse == [kind |-> "none"]

\* the response FastAPI sends for an exception that leaves the handler:
\* the HTTPException's status, 500 for any other exception
ErrorResponse(exc, status) == [kind |-> "error", status |-> status, exc |-> exc]

\* IngestResponse(success=True, ...)
IngestResponse(c) ==
    [kind |-> "ok", status |-> 200, success |-> TRUE,
     document_uri |-> c.uri, chunks_created |-> c.total_inserted]

\* a mutant of Row: the row numbered by the count of rows inserted so far
RowByCount(c, chunk) ==
    [text |-> chunk.text, document_uri |-> c.uri, chunk_num |-> c.total_inserted,
     op |-> c.id, of |-> Len(c.chunks)]

\* the row one INSERT writes (text, document_uri, chunk_num), tagged with
\* the call that wrote it and the number of chunks that call produced
Row(c, chunk) ==
    [text |-> chunk.text, document_uri |-> c.uri, chunk_num |-> chunk.chunk_num,
     op |-> c.id, of |-> Len(c.chunks)]

\* a mutant of InsertFailed: the first failing insert ends the loop
InsertFailedBreak(c) ==
    [c EXCEPT !.i = Len(c.chunks) + 1, !.attempted = @ + 1, !.failed = @ + 1]

\* insert_chunks, the except branch: log, continue with the next chunk
InsertFailed(c) ==
    [c EXCEPT !.i = @ + 1, !.attempted = @ + 1, !.failed = @ + 1]

\* insert_chunks, the INSERT went through: total_inserted += 1
InsertDone(c) ==
    [c EXCEPT !.i = @ + 1, !.attempted = @ + 1, !.total_inserted = @ + 1]

\* a mutant of CloseConn: the connection is left open
LeakConn(n) == n

\* finally: await conn.close()
CloseConn(n) == n - 1

\* a mutant of OnRaise: the failure entry is recorded and the loop ends
OnRaiseAbort(b, uri, exc) ==
    [b EXCEPT !.results = Append(@, [uri |-> uri, success |-> FALSE, error |-> exc]),
              !.i = Len(b.uris) + 1]

\* ingest_batch, the except branch: a failure entry, then the next uri
OnRaise(b, uri, exc) ==
    [b EXCEPT !.results = Append(@, [uri |-> uri, success |-> FALSE, error |-> exc]),
              !.i = @ + 1]

\* ingest_batch, the call returned: a success entry, then the next uri
OnResult(b, uri, result) ==
    [b EXCEPT !.results = Append(@, [uri |-> uri, success |-> TRUE,
                                     chunks |-> result.chunks_created]),
              !.i = @ + 1]

\* success_count = sum(1 for r in results if r["success"])
SuccessCount(results) ==
    Cardinality({k \in 1..Len(results) : results[k].success})

\* the summary ingest_batch returns
BatchSummary(b) ==
    [kind |-> "batch", status |-> 200,
     total |-> Len(b.uris),
     successful |-> SuccessCount(b.results),
     failed |-> Len(b.uris) - SuccessCount(b.results),
     results |-> b.results]

\* the lists of identifiers a client can post to /ingest/batch
BatchInputs == UNION {[1..n -> {PathDoc, PathEmpty, PathMissing}] : n \in 0..MaxBatch}

ServiceIdle ==
    /\ pc = "idle" /\ call = NoCall /\ rows = {} /\ conns = 0
    /\ batch = NoBatch /\ response = NoResponse /\ ops = 0

ServiceUnchanged == UNCHANGED <<pc, call, rows, conns, batch, response, ops>>
CleanIdle == ct = [pc |-> "off"]
ChunkIdle == ck = [pc |-> "off"]
MinioIdle == mn = [pc |-> "off"]
OthersUnchanged == UNCHANGED <<ct, ck, mn>>

(***************************************************************************)
(* The service: actions                                                    *)
(***************************************************************************)

\* An exception leaves the running ingest_document call.
Raised(c, exc, status) ==
    IF c.caller = "batch"
    THEN /\ batch' = OnRaise(batch, c.document_uri.s, exc)
         /\ pc' = "batch"
         /\ response' = response
    ELSE /\ response' = ErrorResponse(exc, status)
         /\ pc' = "done"
         /\ batch' = batch

\* The running call gets from its arguments to its chunks (lines 162-203).
Started(c) ==
    LET p == Prepare(c.file, c.document_uri, c.text_content) IN
    IF p.tag = "raise"
    THEN /\ call' = c
         /\ Raised(c, p.exc, p.status)
    ELSE /\ call' = [c EXCEPT !.uri = p.uri, !.text = p.text, !.chunks = p.chunks]
         /\ pc' = "connect"
         /\ response' = NoResponse
         /\ batch' = batch

\* POST /ingest arrives.
Ingest ==
    /\ pc = "idle" /\ ops < MaxOps
    /\ \E file \in FileInputs, document_uri \in UriInputs, text_content \in TextInputs :
          Started(NewCall("http", <<ops + 1, 0>>, file, document_uri, text_content))
    /\ ops' = ops + 1
    /\ UNCHANGED <<rows, conns>>
    /\ OthersUnchanged

\* asyncpg.connect: a connection, or an exception (the store is down).
Connect ==
    /\ pc = "connect"
    /\ \E ok \in BOOLEAN :
          IF ok
          THEN /\ conns' = conns + 1
               /\ call' = [call EXCEPT !.opened = @ + 1]
               /\ pc' = "insert"
               /\ UNCHANGED <<batch, response>>
          ELSE /\ conns' = conns
               /\ call' = call
               /\ IF call.caller = "batch"
                  THEN /\ batch' = [OnRaise(batch, call.document_uri.s, "ConnectionError")
                                     EXCEPT !.storeFailures = @ + 1]
                       /\ pc' = "batch"
                       /\ response' = response
                  ELSE Raised(call, "ConnectionError", 500)
    /\ UNCHANGED <<rows, ops>>
    /\ OthersUnchanged

\* insert_chunks, one turn of the loop: the INSERT of the next chunk goes
\* through or raises.
InsertChunk ==
    /\ pc = "insert" /\ call.i <= Len(call.chunks)
    /\ \E ok \in BOOLEAN :
          IF ok
          THEN /\ rows' = rows \cup {Row(call, call.chunks[call.i])}
               /\ call' = InsertDone(call)
          ELSE /\ rows' = rows
               /\ call' = InsertFailed(call)
    /\ UNCHANGED <<pc, conns, batch, response, ops>>
    /\ OthersUnchanged

\* insert_chunks returns; ingest_document returns its IngestResponse and the
\* finally clause closes the connection.
Return ==
    /\ pc = "insert" /\ call.i > Len(call.chunks)
    /\ conns' = CloseConn(conns)
    /\ IF call.caller = "batch"
       THEN /\ batch' = OnResult(batch, call.document_uri.s, IngestResponse(call))
            /\ pc' = "batch"
            /\ response' = response
       ELSE /\ response' = IngestResponse(call)
            /\ pc' = "done"
            /\ batch' = batch
    /\ UNCHANGED <<call, rows, ops>>
    /\ OthersUnchanged

\* POST /ingest/batch arrives.
BatchStart ==
    /\ pc = "idle" /\ ops < MaxOps
    /\ \E document_uris \in BatchInputs :
          batch' = [NoBatch EXCEPT !.uris = document_uris]
    /\ pc' = "batch"
    /\ response' = NoResponse
    /\ ops' = ops + 1
    /\ UNCHANGED <<call, rows, conns>>
    /\ OthersUnchanged

\* ingest_batch, one turn of the loop:
\* ingest_document(document_uri=uri, metadata="{}"), a direct call, so file
\* and text_content are their declared defaults File(None) and Form(None).
BatchCall ==
    /\ pc = "batch" /\ batch.i <= Len(batch.uris)
    /\ Started(NewCall("batch", <<ops, batch.i>>,
                       FieldInfo, Str(batch.uris[batch.i]), FieldInfo))
    /\ UNCHANGED <<rows, conns, ops>>
    /\ OthersUnchanged

\* ingest_batch returns its summary.
BatchReturn ==
    /\ pc = "batch" /\ batch.i > Len(batch.uris)
    /\ response' = BatchSummary(batch)
    /\ pc' = "done"
    /\ UNCHANGED <<call, rows, conns, batch, ops>>
    /\ OthersUnchanged

\* The response has gone to the client; the request's frame is no more.
Respond ==
    /\ pc = "done"
    /\ pc' = "idle"
    /\ call' = NoCall /\ batch' = NoBatch /\ response' = NoResponse
    /\ UNCHANGED <<rows, conns, ops>>
    /\ OthersUnchanged

Init == ServiceIdle /\ CleanIdle /\ ChunkIdle /\ MinioIdle

Next ==
    \/ Ingest
    \/ Connect
    \/ InsertChunk
    \/ Return
    \/ BatchStart
    \/ BatchCall
    \/ BatchReturn
    \/ Respond

Spec == Init /\ [][Next]_vars


(***************************************************************************)
(* SpecClean: the text_content path of ingest_document sanitizes the text  *)
(* at line 172 and again at line 197.                                      *)
(***************************************************************************)
\* null, control characters (removed and kept), printable ASCII, a C1
\* control, Latin-1, BMP, lone surrogates, an astral code point
CleanAlphabet ==
    {0, 1, 9, 10, 11, 13, 31, 32, 97, 127, 133, 233, 8364, 55296, 57343, 128512}

CleanInputs == UNION {[1..n -> CleanAlphabet] : n \in 0..MaxCleanLen}

CleanInit ==
    /\ ct \in {[pc |-> "input", text_content |-> t, first |-> <<>>, text |-> <<>>] :
                 t \in CleanInputs}
    /\ ServiceIdle /\ ChunkIdle /\ MinioIdle

\* line 172: text = clean_text(text_content)
CleanFirst ==
    /\ ct.pc = "input"
    /\ ct' = [ct EXCEPT !.pc = "first", !.first = clean_text(ct.text_content),
                        !.text = clean_text(ct.text_content)]
    /\ ServiceUnchanged /\ UNCHANGED <<ck, mn>>

\* line 197: text = clean_text(text)
CleanAgain ==
    /\ ct.pc = "first"
    /\ ct' = [ct EXCEPT !.pc = "second", !.text = clean_text(ct.text)]
    /\ ServiceUnchanged /\ UNCHANGED <<ck, mn>>

CleanNext ==
    \/ CleanFirst
    \/ CleanAgain

SpecClean == CleanInit /\ [][CleanNext]_vars

(***************************************************************************)
(* SpecChunk: chunk_text on arbitrary short texts, for every valid         *)
(* chunk_size > chunk_overlap > 0 up to MaxChunkSize.                      *)
(***************************************************************************)
\* "a", "b", space, newline
ChunkAlphabet == {97, 98, 32, 10}

ChunkInputs == UNION {[1..n -> ChunkAlphabet] : n \in 0..MaxChunkLen}

ChunkInit ==
    /\ ck \in {[pc |-> "input", text |-> t, size |-> sz, overlap |-> ov, chunks |-> <<>>] :
                 t \in ChunkInputs, sz \in 2..MaxChunkSize, ov \in 1..MaxChunkSize}
    /\ ck.overlap < ck.size
    /\ ServiceIdle /\ CleanIdle /\ MinioIdle

\* chunks = await chunk_text(text)
Chunk ==
    /\ ck.pc = "input"
    /\ ck' = [ck EXCEPT !.pc = "done",
                        !.chunks = chunk_text(ck.text, ck.size, ck.overlap)]
    /\ ServiceUnchanged /\ UNCHANGED <<ct, mn>>

ChunkNext == Chunk

SpecChunk == ChunkInit /\ [][ChunkNext]_vars


(***************************************************************************)
(* SpecMinio: one run of scripts/ingest-from-minio.py.                     *)
(***************************************************************************)
\* the keys a bucket may hold under the prefix, in listing order:
\* "d/" (a directory marker), "d/a", "d/b", "d/c", "d/e"
BucketKeys ==
    << <<100, 47>>, <<100, 47, 97>>, <<100, 47, 98>>, <<100, 47, 99>>,
       <<100, 47, 101>> >>

\* the keys at the positions S, in listing order
RECURSIVE KeysAt(_, _)
KeysAt(S, k) ==
    IF k > Len(BucketKeys) THEN <<>>
    ELSE (IF k \in S THEN <<BucketKeys[k]>> ELSE <<>>) \o KeysAt(S, k + 1)

\* what client.list_objects_v2 does: it raises, it answers without
\* 'Contents' (nothing matches), or it answers with the matching keys
Listings ==
    {[kind |-> "error", keys |-> <<>>], [kind |-> "empty", keys |-> <<>>]}
    \cup {[kind |-> "contents", keys |-> KeysAt(S, 1)] :
            S \in (SUBSET (1..MaxKeys)) \ {{}}}

\* list_documents: the keys that do not end with '/'; [] when the listing
\* raises or has no 'Contents'
list_documents(listing) ==
    IF listing.kind # "contents" THEN <<>>
    ELSE SelectSeq(listing.keys, LAMBDA key : ~EndsWith(key, <<47>>))

\* files[:n] for n >= 0
Slice(files, n) == SubSeq(files, 1, IF n < Len(files) THEN n ELSE Len(files))

\* if args.limit: files = files[:args.limit]
\* (limit is <<>> when --limit is not given, <<n>> when it is)
ApplyLimit(files, limit) ==
    IF limit # <<>> /\ limit[1] # 0 THEN Slice(files, limit[1]) ELSE files

\* what happens to one object in ingest_document (the script's): get_object
\* raises, requests.post raises, the service answers 200, or another status
Outcomes == {"get_error", "post_error", "status_200", "status_other"}

MinioInit ==
    /\ mn \in {[pc |-> "args",
                minio_endpoint |-> e, access_key |-> a, secret_key |-> k,
                dry_run |-> d, limit |-> l, listing |-> b,
                client |-> "none", files |-> <<>>, idx |-> 1,
                success_count |-> 0, fail_count |-> 0,
                downloads |-> 0, posts |-> 0, exit |-> -1] :
                 e \in BOOLEAN, a \in BOOLEAN, k \in BOOLEAN, d \in BOOLEAN,
                 l \in {<<>>} \cup {<<n>> : n \in 0..MaxLimit},
                 b \in Listings}
    /\ ServiceIdle /\ CleanIdle /\ ChunkIdle

MinioUnchanged == ServiceUnchanged /\ UNCHANGED <<ct, ck>>

\* lines 168-182: the three required parameters
Validate ==
    /\ mn.pc = "args"
    /\ mn' = IF mn.minio_endpoint /\ mn.access_key /\ mn.secret_key
             THEN [mn EXCEPT !.pc = "client"]
             ELSE [mn EXCEPT !.pc = "exit", !.exit = 1]
    /\ MinioUnchanged

\* lines 193-202: get_minio_client returns a client or raises
CreateClient ==
    /\ mn.pc = "client"
    /\ \E ok \in BOOLEAN :
          mn' = IF ok THEN [mn EXCEPT !.pc = "list", !.client = "ok"]
                ELSE [mn EXCEPT !.pc = "exit", !.client = "failed", !.exit = 1]
    /\ MinioUnchanged

\* lines 204-229: list, stop when nothing is listed, apply --limit, stop
\* after printing the keys in a dry run, else enter the loop
ListFiles ==
    /\ mn.pc = "list"
    /\ LET files == list_documents(mn.listing) IN
          mn' = IF files = <<>>
                THEN [mn EXCEPT !.pc = "exit", !.exit = 0]
                ELSE IF mn.dry_run
                THEN [mn EXCEPT !.pc = "exit", !.exit = 0,
                                !.files = ApplyLimit(files, mn.limit)]
                ELSE [mn EXCEPT !.pc = "loop",
                                !.files = ApplyLimit(files, mn.limit)]
    /\ MinioUnchanged

\* lines 231-237: one turn of the loop, ingest_document(client, bucket, key,
\* ingest_url) being true only for a 200 answer
IngestObject ==
    /\ mn.pc = "loop" /\ mn.idx <= Len(mn.files)
    /\ \E outcome \in Outcomes :
          mn' = [mn EXCEPT
                   !.idx = @ + 1,
                   !.downloads = @ + 1,
                   !.posts = IF outcome = "get_error" THEN @ ELSE @ + 1,
                   !.success_count = IF outcome = "status_200" THEN @ + 1 ELSE @,
                   !.fail_count = IF outcome = "status_200" THEN @ ELSE @ + 1]
    /\ MinioUnchanged

\* lines 239-251: the summary and the exit code
Summary ==
    /\ mn.pc = "loop" /\ mn.idx > Len(mn.files)
    /\ mn' = [mn EXCEPT !.pc = "exit",
                        !.exit = IF mn.fail_count > 0 THEN 1 ELSE 0]
    /\ MinioUnchanged

MinioNext ==
    \/ Validate
    \/ CreateClient
    \/ ListFiles
    \/ IngestObject
    \/ Summary

SpecMinio == MinioInit /\ [][MinioNext]_vars


(***************************************************************************)
(* Properties                                                              *)
(***************************************************************************)
\* the rows the call with frame c has written
RowsOf(c) == {r \in rows : r.op = c.id}

\* a POST /ingest request has been answered
HttpDone == pc = "done" /\ call.caller = "http"
\* a POST /ingest/batch request has been answered
BatchDone == pc = "done" /\ response.kind = "batch"

\* a form field that carries nothing: absent, or the empty string
NotGiven(v) == v.tag = "none" \/ (v.tag = "str" /\ v.s = <<>>)

\* a name that ends in .md, .txt or .html
PlainTextName(name) ==
    \/ EndsWith(name, <<46, 109, 100>>)
    \/ EndsWith(name, <<46, 116, 120, 116>>)
    \/ EndsWith(name, <<46, 104, 116, 109, 108>>)

\* the positions of a batch whose path does not exist
MissingIn(uris) == {k \in 1..Len(uris) : ~PathExists(uris[k])}

(* C1: a batch of N identifiers of which exactly one names a path that does
   not exist, the others readable text files, the store working: the summary
   has successful = N-1 and failed = 1, the missing path's entry is the only
   one with success = false, and the entries are in input order. *)
BatchIsolation ==
    (/\ BatchDone
     /\ Cardinality(MissingIn(batch.uris)) = 1
     /\ \A k \in 1..Len(batch.uris) :
           k \notin MissingIn(batch.uris) => PathReadable(batch.uris[k])
     /\ batch.storeFailures = 0)
    => /\ response.total = Len(batch.uris)
       /\ response.successful = Len(batch.uris) - 1
       /\ response.failed = 1
       /\ Len(response.results) = Len(batch.uris)
       /\ \A k \in 1..Len(batch.uris) :
             /\ response.results[k].uri = batch.uris[k]
             /\ response.results[k].success <=> k \notin MissingIn(batch.uris)

(* C2: the batch loop visits every identifier once, in order, whatever each
   document's outcome: while it runs, the results are the entries of the
   identifiers before the loop index; its summary has total = length of the
   input, one entry per identifier with results[i].uri = input[i],
   successful = number of entries with success = true, and
   successful + failed = total. *)
BatchAggregate ==
    /\ Len(batch.results) = batch.i - 1
    /\ batch.i <= Len(batch.uris) + 1
    /\ \A k \in 1..Len(batch.results) : batch.results[k].uri = batch.uris[k]
    /\ BatchDone =>
          /\ response.total = Len(batch.uris)
          /\ Len(response.results) = Len(batch.uris)
          /\ \A k \in 1..Len(batch.uris) : response.results[k].uri = batch.uris[k]
          /\ response.successful
               = Cardinality({k \in 1..Len(response.results) : response.results[k].success})
          /\ response.successful + response.failed = response.total
          /\ response.failed >= 0

\* a batch of several identifiers, one missing and one present, answered
BatchAggregateWitness ==
    /\ BatchDone
    /\ Len(batch.uris) >= 2
    /\ MissingIn(batch.uris) # {}
    /\ \E k \in 1..Len(batch.uris) : PathReadable(batch.uris[k])
    /\ response.failed >= 1

(* C3: a failing chunk insert is swallowed: every chunk of the document is
   attempted, in order; the count insert_chunks returns is the number of
   inserts that went through (chunks produced minus chunks failed), which is
   the number of rows written; and the call that opened its connection
   answers success = true with chunks_created equal to that count, whatever
   subset of the inserts failed. *)
ChunkFailureSwallowed ==
    /\ pc = "insert" =>
          /\ call.attempted = call.i - 1
          /\ call.total_inserted = call.attempted - call.failed
          /\ call.total_inserted = Cardinality(RowsOf(call))
    /\ (HttpDone /\ call.opened = 1) =>
          /\ response.kind = "ok" /\ response.success
          /\ call.attempted = Len(call.chunks)
          /\ response.chunks_created = Len(call.chunks) - call.failed
          /\ response.chunks_created = Cardinality(RowsOf(call))

\* the insert of chunk 0 failed, the insert of chunk 1 went through, and the
\* document is reported ingested with one chunk of two
ChunkFailureWitness ==
    /\ HttpDone /\ response.kind = "ok" /\ response.success
    /\ Len(call.chunks) = 2 /\ call.failed = 1
    /\ response.chunks_created = 1
    /\ \E r \in RowsOf(call) : r.chunk_num = 1

\* the three requests of C4
NothingProvided ==
    NotGiven(call.file) /\ NotGiven(call.document_uri) /\ NotGiven(call.text_content)
OnlyMissingPath ==
    /\ NotGiven(call.file) /\ NotGiven(call.text_content)
    /\ call.document_uri.tag = "str" /\ call.document_uri.s # <<>>
    /\ ~PathExists(call.document_uri.s)
UnsupportedFile ==
    /\ call.file.tag = "upload" /\ NotGiven(call.text_content)
    /\ ~PlainTextName(call.file.filename)

(* C4: POST /ingest with no content source, with only a document_uri whose
   path does not exist, or with a file (and no text_content) whose name does
   not end in .md, .txt or .html is answered with a 4xx status, and the call
   opens no database connection and writes no row. *)
ClientErrorNoStore ==
    (HttpDone /\ (NothingProvided \/ OnlyMissingPath \/ UnsupportedFile))
    => /\ response.kind = "error"
       /\ response.status \in 400..499
       /\ call.opened = 0
       /\ RowsOf(call) = {}

\* an uploaded a.pdf has been refused
ClientErrorWitness ==
    /\ HttpDone /\ UnsupportedFile
    /\ call.file.filename = NamePdf
    /\ response.kind = "error" /\ response.status = 400

\* the three carriers of an empty text of C5
EmptyTextContent ==
    /\ call.text_content = Str(<<>>)
    /\ call.file.tag = "none" /\ call.document_uri.tag = "none"
EmptyUpload ==
    /\ call.file.tag = "upload" /\ call.file.content = <<>>
    /\ PlainTextName(call.file.filename)
    /\ NotGiven(call.text_content)
EmptyPath ==
    /\ call.document_uri = Str(PathEmpty)
    /\ call.file.tag = "none" /\ call.text_content.tag = "none"
\* the store was reachable when the call asked for a connection
StoreUp == ~(response.kind = "error" /\ response.exc = "ConnectionError")

(* C5: ingesting empty text, carried by an empty text_content string, by an
   empty uploaded file with a supported extension, or by a document_uri
   naming an empty file, yields no chunk, writes no row, and is answered
   success = true with chunks_created = 0. *)
EmptyTextIngested ==
    (HttpDone /\ StoreUp /\ (EmptyTextContent \/ EmptyUpload \/ EmptyPath))
    => /\ response.kind = "ok"
       /\ response.success
       /\ response.chunks_created = 0
       /\ call.chunks = <<>>
       /\ RowsOf(call) = {}

\* the rows of one document identifier
RowsFor(uri) == {r \in rows : r.document_uri = uri}

(* C6, as claimed: between requests, the sequence numbers of the rows that
   share a document identifier are 0..n-1, each once. *)
RowsContiguousPerDocument ==
    pc \in {"idle", "done"} =>
        \A uri \in {r.document_uri : r \in rows} :
            /\ \A r1, r2 \in RowsFor(uri) :
                  r1.chunk_num = r2.chunk_num => r1 = r2
            /\ {r.chunk_num : r \in RowsFor(uri)}
                 = 0..(Cardinality(RowsFor(uri)) - 1)

(* C6, amended: the chunker numbers the chunks of a document 0..n-1; each
   row an ingest operation writes carries the number the chunker gave its
   chunk; the rows of one operation carry distinct sequence numbers among
   0..n-1, and exactly 0..n-1 when none of its inserts failed.  (Rows of
   several operations on one identifier accumulate, and a failed insert
   leaves a gap.) *)
RowsNumberedPerOperation ==
    /\ \A k \in 1..Len(call.chunks) : call.chunks[k].chunk_num = k - 1
    /\ \A r \in RowsOf(call) :
          /\ r.chunk_num + 1 \in 1..Len(call.chunks)
          /\ r.text = call.chunks[r.chunk_num + 1].text
    /\ \A r \in rows : r.chunk_num \in 0..(r.of - 1)
    /\ \A r1, r2 \in rows :
          (r1.op = r2.op /\ r1.chunk_num = r2.chunk_num) => r1 = r2
    /\ (pc = "done" /\ call.opened = 1 /\ call.failed = 0) =>
          {r.chunk_num : r \in RowsOf(call)} = 0..(Len(call.chunks) - 1)

\* one identifier ingested twice: its rows repeat a sequence number
RowsRepeatWitness ==
    /\ pc = "done" /\ call.opened = 1 /\ call.failed = 0
    /\ Len(call.chunks) = 2
    /\ \E r1, r2 \in rows :
          /\ r1.document_uri = r2.document_uri
          /\ r1.chunk_num = r2.chunk_num
          /\ r1.op # r2.op

\* the characters of a text
Chars(text) == {text[k] : k \in 1..Len(text)}

(* C7, as claimed: every chunk is non-empty and at most chunk_size long, the
   k-th chunk carries sequence number k, and there is no chunk if and only
   if the text is empty. *)
ChunkerContract ==
    ck.pc = "done" =>
        /\ \A k \in 1..Len(ck.chunks) :
              /\ ck.chunks[k].text # <<>>
              /\ Len(ck.chunks[k].text) <= ck.size
              /\ ck.chunks[k].chunk_num = k - 1
        /\ ck.chunks = <<>> <=> ck.text = <<>>

(* C7, amended: every chunk is non-empty and at most chunk_size long, the
   k-th chunk carries sequence number k, and there is no chunk if and only
   if the text holds nothing but whitespace (the empty text included). *)
ChunkerContractAmended ==
    ck.pc = "done" =>
        /\ \A k \in 1..Len(ck.chunks) :
              /\ ck.chunks[k].text # <<>>
              /\ Len(ck.chunks[k].text) <= ck.size
              /\ ck.chunks[k].chunk_num = k - 1
        /\ ck.chunks = <<>> <=> Chars(ck.text) \subseteq {9, 10, 11, 12, 13, 32}

\* a text longer than chunk_size, with a space in it, cut into several
\* chunks of which the first is full
ChunkerWitness ==
    /\ ck.pc = "done"
    /\ Len(ck.text) > ck.size /\ 32 \in Chars(ck.text)
    /\ Len(ck.chunks) >= 2
    /\ Len(ck.chunks[1].text) = ck.size

\* the ASCII control characters but tab, newline and carriage return
RemovedControls == ((0..31) \cup {127}) \ {9, 10, 13}

\* the tabs, newlines and carriage returns of a text, in order
KeptControls(text) == SelectSeq(text, LAMBDA c : c \in {9, 10, 13})

(* C8: clean_text's output holds no null character and none of the control
   characters it removes, keeps every tab, newline and carriage return, and
   cleaning it again changes nothing: the text_content path, which cleans
   twice, persists the text cleaned once. *)
CleanTextIdempotent ==
    /\ ct.pc \in {"first", "second"} =>
          /\ 0 \notin Chars(ct.first)
          /\ Chars(ct.first) \cap RemovedControls = {}
          /\ KeptControls(ct.first) = KeptControls(ct.text_content)
    /\ ct.pc = "second" => ct.text = ct.first

\* a text with a null and a removed control character has been cleaned
\* twice, and something of it is left
CleanTextWitness ==
    /\ ct.pc = "second"
    /\ 0 \in Chars(ct.text_content) /\ 1 \in Chars(ct.text_content)
    /\ ct.text # <<>> /\ ct.text # ct.text_content

\* the non-directory keys of the listing
ListedKeys == SelectSeq(mn.listing.keys, LAMBDA key : key[Len(key)] # 47)

\* the listed keys truncated to --limit
ProcessedKeys ==
    IF mn.limit = <<>> \/ mn.limit[1] >= Len(ListedKeys) THEN ListedKeys
    ELSE SubSeq(ListedKeys, 1, mn.limit[1])

(* C9: the bulk-fetch utility exits 1 when the endpoint, the access key or
   the secret key is missing; once configured and connected, it exits 0 in a
   dry run, without downloading an object or sending a request; and in a
   real run it exits 0 when no object failed, 1 when one did, with
   success_count + fail_count = the number of listed keys truncated to
   --limit. *)
BulkFetchExit ==
    mn.pc = "exit" =>
        /\ ~(mn.minio_endpoint /\ mn.access_key /\ mn.secret_key) => mn.exit = 1
        /\ (mn.client = "ok" /\ mn.dry_run) =>
              mn.exit = 0 /\ mn.downloads = 0 /\ mn.posts = 0
        /\ (mn.client = "ok" /\ ~mn.dry_run) =>
              /\ mn.fail_count > 0 => mn.exit = 1
              /\ mn.fail_count = 0 => mn.exit = 0
              /\ mn.success_count + mn.fail_count = Len(ProcessedKeys)

(* C10: a call of ingest_document opens at most one connection, a
   connection is open only while the call inserts its chunks, and none is
   open once the call has returned or raised: between the documents of a
   batch, after the batch, and after a single request. *)
ConnectionScoped ==
    /\ conns \in 0..1
    /\ call.opened \in 0..1
    /\ conns = 1 <=> pc = "insert"
    /\ pc \in {"idle", "done", "batch", "connect"} => conns = 0

\* a call that opened a connection has answered and the connection is closed
ConnectionWitness ==
    /\ HttpDone /\ call.opened = 1 /\ response.kind = "ok"
    /\ conns = 0

====
